---- MODULE Spec2Model ----
(***************************************************************************)
(* Lifecycle state machine of the embedded HTTP server module              *)
(* (components/http_server/http_server.cpp): start(), stop(),              *)
(* is_running(), wait_until_running(), register_uri(), unregister_uri()    *)
(* called by several tasks, and the worker task http_srv_task.             *)
(*                                                                         *)
(* Every section of code that runs between lock_mutex() and unlock_mutex() *)
(* is one action; everything the code does outside the lock (task          *)
(* creation, wake notification, event-group wait, httpd_stop, vTaskDelete) *)
(* is an action of its own, so that other tasks interleave exactly where   *)
(* the code lets them.  Time is abstracted: a timeout may expire at any    *)
(* moment, a created task may be scheduled arbitrarily late.               *)
(***************************************************************************)
EXTENDS Integers, Sequences, FiniteSets, TLC

\* ------------------------------------------------------------------ bounds
\* Control blocks xTaskCreate can hand out, httpd instances httpd_start can
\* hand out.
MaxWorkers == 3
MaxServers == 3
\* Iterations of start()'s attempt loop and of stop_worker_task()'s polling
\* loop the specification follows (the code's own limits are kMaxAttempts
\* and kStopPolls; an iteration of either loop beyond the first repeats the
\* same steps on the same shared state).
AttemptBound == 2
PollBound == 1
\* Client connections httpd_get_client_list can report.
MaxUriLen == 4
MaxMounts == 3
MaxChunks == 2
MaxClients == 2
\* Locks, and event groups, that can be created.
MaxLocks == 3

\* ------------------------------------------------------- program constants
kMaxAttempts == 5
kInitialBackoff == 50
kStopPolls == 50
kMaxOpenSockets == 7
kBufSize == 1024

\* Tasks calling the public API.
Callers == {"t1", "t2"}
Workers == 1 .. MaxWorkers
Servers == 1 .. MaxServers

State == {"STOPPED", "STARTING", "RUNNING", "STOPPING"}

\* The four routes start_server registers, in registration order.
DefaultRoutes == << "/", "/index.html", "/index.htm", "/favicon.ico" >>
\* URIs the callers pass to the public register_uri / unregister_uri
\* ("NULL" is the null pointer).  The method is always HTTP_GET.
CallerUris == {"NULL", "/api/ping"}

VARIABLES
    s_mutex,            \* TRUE once the lock exists
    s_evt,              \* TRUE once the event group exists
    mutexDead,          \* the lock is held by a task that was deleted
    s_state,
    s_server,           \* 0 is nullptr
    s_task,             \* 0 is nullptr
    s_task_exit,
    ready_bit,          \* READY_BIT of s_evt
    s_max_open_sockets,
    live,               \* httpd instances started and not yet stopped
    handlers,           \* handlers[h]: the uris registered on instance h
    wk,                 \* wk[w]: the worker task in control block w
    task,               \* task[c]: where caller c is, and its locals
    ev,                 \* the call that returned in the last step, if any
    cfg,                \* the loop limits the specification follows
    em,                 \* the lock and event group as objects, followed
                        \* where the first calls are taken step by step
    files,              \* the paths fopen can open on the mount
    s_fs_mounted,       \* the LittleFS mount has succeeded
    mount_log,          \* what each esp_vfs_littlefs_register call returned
    rq                  \* the request being served, or the resolver's input

initv  == << s_mutex, s_evt >>
httpd  == << live, handlers >>
shared == << s_mutex, s_evt, mutexDead, s_state, s_server, s_task, s_task_exit,
             ready_bit, s_max_open_sockets, live, handlers, wk >>
fsv    == << files, s_fs_mounted, mount_log, rq >>
vars   == << s_mutex, s_evt, mutexDead, s_state, s_server, s_task, s_task_exit,
             ready_bit, s_max_open_sockets, live, handlers, wk, task, ev, cfg,
             em, files, s_fs_mounted, mount_log, rq >>

\* A caller that is in no call.
Idle == [pc |-> "idle", op |-> "none", obs |-> "none", timeout |-> 0,
         attempt |-> 0, backoff |-> 0, delay |-> 0, i |-> 0, k |-> 0,
         nt |-> 0, to_stop |-> 0, handle |-> 0,
         srv |-> 0, max_socks |-> 0, fds_len |-> 0]

NoWorker == [pc |-> "none", notified |-> FALSE]

\* What the resolver reports when it fails: the outputs cleared.  `probes`
\* are the paths it tried to open, in order.
NotResolved(probes) ==
    [ok |-> FALSE, full_path |-> << >>, ctype |-> "", is_gz |-> FALSE,
     probes |-> probes]

\* No request is being served.
\* `status`, `ctype`, `no_cache` and `gzip` are the response fields set so far
\* (a new request starts with the transport's defaults), `size` the length
\* of the opened file (-1: none is open), `pos` the bytes read from it,
\* `rderr` whether a read failed, `out` what was handed to the connection.
NoRequest == [pc |-> "none", handler |-> "none", uri |-> << >>, rc |-> "none",
              res |-> NotResolved(<< >>), status |-> "200 OK",
              ctype |-> "text/html", no_cache |-> FALSE, gzip |-> FALSE,
              size |-> -1, pos |-> 0, rderr |-> FALSE,
              ret |-> "none", out |-> << >>]

\* No call returned in the last step.
NoEvent == [c |-> "none", op |-> "none", ret |-> "none", obs |-> "none",
            uri |-> "none", handler |-> "none", timeout |-> 0, attempt |-> 0]

\* No lock and no event group has been created.  `mutex` and `evt` are the
\* handles in s_mutex and s_evt (0 is nullptr), `locks` and `groups` count
\* the objects created, `deleted` are the locks passed to vSemaphoreDelete,
\* `holder` is the task holding each lock, `pc` each task's position in its
\* call and `tk` the lock handle it read for xSemaphoreTake.
NoInit ==
    [mutex |-> 0, evt |-> 0, locks |-> 0, groups |-> 0, deleted |-> {},
     holder |-> [l \in 1 .. MaxLocks |-> "none"],
     pc |-> [c \in Callers |-> "idle"], tk |-> [c \in Callers |-> 0]]

InitShared ==
    /\ em = NoInit
    /\ s_mutex = FALSE
    /\ s_evt = FALSE
    /\ mutexDead = FALSE
    /\ s_state = "STOPPED"
    /\ s_server = 0
    /\ s_task = 0
    /\ s_task_exit = FALSE
    /\ ready_bit = FALSE
    /\ s_max_open_sockets = 0
    /\ live = {}
    /\ handlers = [h \in Servers |-> {}]
    /\ wk = [w \in Workers |-> NoWorker]
    /\ task = [c \in Callers |-> Idle]
    /\ ev = NoEvent

\* The build option the component defaults to: no file serving, so that
\* start_server makes no mount call.
CONFIG_HTTP_SERVER_ENABLE_LITTLEFS == FALSE

\* Nothing is mounted and no request is being served.
InitFs ==
    /\ files = {}
    /\ s_fs_mounted = FALSE
    /\ mount_log = << >>
    /\ rq = NoRequest

\* Two tasks call the API; the loops are followed up to the bounds.
Init ==
    /\ InitShared
    /\ InitFs
    /\ cfg = [attempts |-> IF kMaxAttempts < AttemptBound THEN kMaxAttempts
                                                          ELSE AttemptBound,
              polls    |-> IF kStopPolls < PollBound THEN kStopPolls ELSE PollBound,
              littlefs |-> CONFIG_HTTP_SERVER_ENABLE_LITTLEFS]

\* ----------------------------------------------------------------- helpers

\* The call `op` of caller c returns `r`; `seen` is the lifecycle state the
\* call read under the lock at its entry ("none" when it read none).
Event(c, op, r, seen) ==
    [NoEvent EXCEPT !.c = c, !.op = op, !.ret = r, !.obs = seen]

\* Caller c goes on inside its call, with locals r.
Set(c, r) ==
    /\ task' = [task EXCEPT ![c] = r]
    /\ ev' = NoEvent
    /\ UNCHANGED << cfg, em, fsv >>

Goto(c, label) == Set(c, [task[c] EXCEPT !.pc = label])

\* Caller c returns from its call.
Ret(c, e) ==
    /\ task' = [task EXCEPT ![c] = Idle]
    /\ ev' = e
    /\ UNCHANGED << cfg, em, fsv >>

\* ensure_mutex(): creates the lock and the event group on first use.  `ok`
\* is what it returns; it can only fail while one of them is still missing,
\* and then it leaves both missing.  It is taken as one step here; the
\* specification of first calls follows it statement by statement.
ensure_mutex(ok) ==
    /\ ok \in (IF s_mutex /\ s_evt THEN {TRUE} ELSE BOOLEAN)
    /\ s_mutex' = ok
    /\ s_evt' = ok

\* lock_mutex(portMAX_DELAY) returns only when the lock is free; a lock held
\* by a deleted task is never released.
lock_mutex == ~mutexDead

Min(S) == CHOOSE x \in S : \A y \in S : x <= y

\* Control blocks xTaskCreate can hand out: free, and no handle to them is
\* still held anywhere.
FreeWorkers ==
    {w \in Workers : /\ wk[w].pc = "none"
                     /\ s_task # w
                     /\ \A c \in Callers : task[c].nt # w /\ task[c].handle # w}

\* Instances httpd_start can hand out.
FreeServers ==
    {h \in Servers : /\ h \notin live
                     /\ s_server # h
                     /\ \A c \in Callers : task[c].to_stop # h /\ task[c].srv # h}

\* What httpd_register_uri_handler(h, uri) can return: the handler exists
\* already, or it is added (one registration per uri and method; fewer
\* handlers are ever registered than max_uri_handlers = 40).
httpd_register_uri_handler(h, uri) ==
    IF uri \in handlers[h] THEN {"HANDLER_EXISTS"} ELSE {"OK"}

\* What httpd_unregister_uri_handler(h, uri) can return.
httpd_unregister_uri_handler(h, uri) ==
    IF uri \in handlers[h] THEN {"OK"} ELSE {"NOT_FOUND"}

\* --------------------------------------------------------------- start()

\* The states in which start() returns at once.
StartNoOp_NoStopping(st) == st \in {"RUNNING", "STARTING"}
StartNoOp(st) == st \in {"RUNNING", "STARTING", "STOPPING"}

\* A failed attempt that delays but leaves the backoff as it is.
NextAttempt_NoDoubling(r) ==
    [r EXCEPT !.attempt = r.attempt + 1,
              !.delay = r.backoff,
              !.i = 0, !.k = 0, !.nt = 0, !.to_stop = 0, !.handle = 0,
              !.pc = IF r.attempt + 1 < cfg.attempts THEN "srv_start"
                                                     ELSE "start_final"]

\* start(): a failed attempt ends with vTaskDelay(backoff), the doubling of
\* the backoff and the next iteration of the attempt loop.
NextAttempt(r) ==
    [r EXCEPT !.attempt = r.attempt + 1,
              !.delay = r.backoff,
              !.backoff = r.backoff + r.backoff,
              !.i = 0, !.k = 0, !.nt = 0, !.to_stop = 0, !.handle = 0,
              !.pc = IF r.attempt + 1 < cfg.attempts THEN "srv_start"
                                                     ELSE "start_final"]

\* start(), from its entry to the end of its first lock section.
start_check(c) ==
    /\ task[c].pc = "idle"
    /\ \E ok \in BOOLEAN :
        /\ ensure_mutex(ok)
        /\ IF ~ok
           THEN /\ Ret(c, Event(c, "start", "void", "none"))
                /\ UNCHANGED << mutexDead, s_state, s_server, s_task, s_task_exit,
                                ready_bit, s_max_open_sockets, httpd, wk >>
           ELSE /\ lock_mutex
                /\ IF StartNoOp(s_state)
                   THEN /\ Ret(c, Event(c, "start", "void", s_state))
                        /\ UNCHANGED << s_state, s_task_exit, ready_bit >>
                   ELSE /\ s_state' = "STARTING"
                        /\ s_task_exit' = FALSE
                        /\ ready_bit' = FALSE
                        /\ Set(c, [Idle EXCEPT !.pc = "srv_start", !.op = "start",
                                               !.obs = s_state,
                                               !.backoff = kInitialBackoff])
                /\ UNCHANGED << mutexDead, s_server, s_task, s_max_open_sockets,
                                httpd, wk >>

\* start_server(), its lock section: the server is up already, or httpd_start
\* brings it up or fails.
start_server(c) ==
    /\ task[c].pc = "srv_start"
    /\ lock_mutex
    /\ IF s_server # 0
       THEN /\ Goto(c, "task_start")
            /\ UNCHANGED shared
       ELSE /\ s_max_open_sockets' = kMaxOpenSockets
            /\ \E rc \in {"OK", "FAIL"} :
                IF rc = "OK"
                THEN /\ FreeServers # {}
                     /\ s_server' = Min(FreeServers)
                     /\ live' = live \cup {Min(FreeServers)}
                     /\ handlers' = [handlers EXCEPT ![Min(FreeServers)] = {}]
                     /\ Set(c, [task[c] EXCEPT !.pc = "srv_reg", !.k = 1])
                ELSE /\ Set(c, NextAttempt(task[c]))
                     /\ UNCHANGED << s_server, httpd >>
            /\ UNCHANGED << initv, mutexDead, s_state, s_task, s_task_exit,
                            ready_bit, wk >>

\* The states in which register_uri_internal reaches the transport.
RegInternalAllowed(st, srv) == st \in {"STARTING", "RUNNING"} /\ srv # 0

\* start_server(): register_uri_internal for the k-th default route; the
\* first failure goes to the fail label.
start_server_register(c) ==
    /\ task[c].pc = "srv_reg"
    /\ lock_mutex
    /\ IF ~RegInternalAllowed(s_state, s_server)
       THEN /\ Set(c, [task[c] EXCEPT !.pc = "ss_lock", !.k = 0])
            /\ UNCHANGED shared
       ELSE \E rc \in httpd_register_uri_handler(s_server, DefaultRoutes[task[c].k]) :
            IF rc = "OK"
            THEN /\ handlers' = [handlers EXCEPT
                                   ![s_server] = @ \cup {DefaultRoutes[task[c].k]}]
                 /\ Set(c, IF task[c].k = Len(DefaultRoutes)
                           THEN [task[c] EXCEPT !.pc = "task_start", !.k = 0]
                           ELSE [task[c] EXCEPT !.k = @ + 1])
                 /\ UNCHANGED << initv, mutexDead, s_state, s_server, s_task,
                                 s_task_exit, ready_bit, s_max_open_sockets,
                                 live, wk >>
            ELSE /\ Set(c, [task[c] EXCEPT !.pc = "ss_lock", !.k = 0])
                 /\ UNCHANGED shared

\* start_worker_task(), first lock section.
start_worker_task(c) ==
    /\ task[c].pc = "task_start"
    /\ lock_mutex
    /\ IF s_task # 0
       THEN /\ Goto(c, "wait_ready")
            /\ UNCHANGED s_task_exit
       ELSE /\ s_task_exit' = FALSE
            /\ Goto(c, "task_create")
    /\ UNCHANGED << initv, mutexDead, s_state, s_server, s_task, ready_bit,
                    s_max_open_sockets, httpd, wk >>

\* start_worker_task(): xTaskCreate, outside the lock.  The new task is
\* ready to run from here on.
start_worker_task_create(c) ==
    /\ task[c].pc = "task_create"
    /\ \E ok \in BOOLEAN :
        IF ok
        THEN /\ FreeWorkers # {}
             /\ wk' = [wk EXCEPT ![Min(FreeWorkers)] =
                          [pc |-> "init", notified |-> FALSE]]
             /\ Set(c, [task[c] EXCEPT !.pc = "task_store",
                                       !.handle = Min(FreeWorkers)])
        ELSE /\ Set(c, [task[c] EXCEPT !.pc = "ss_lock"])
             /\ UNCHANGED wk
    /\ UNCHANGED << initv, mutexDead, s_state, s_server, s_task, s_task_exit,
                    ready_bit, s_max_open_sockets, httpd >>

\* start_worker_task(), second lock section: store the handle, unless
\* another task stored one meanwhile.
start_worker_task_store(c) ==
    /\ task[c].pc = "task_store"
    /\ lock_mutex
    /\ IF s_task # 0
       THEN /\ Goto(c, "task_kill")
            /\ UNCHANGED s_task
       ELSE /\ s_task' = task[c].handle
            /\ Set(c, [task[c] EXCEPT !.pc = "wait_ready", !.handle = 0])
    /\ UNCHANGED << initv, mutexDead, s_state, s_server, s_task_exit, ready_bit,
                    s_max_open_sockets, httpd, wk >>

\* Where a worker task is inside, or about to enter, a lock section.
AtLockSection(w) == wk[w].pc \in {"init", "check", "exit"}

\* start_worker_task(): vTaskDelete(handle) of the surplus task, after the
\* lock was released.  A task deleted while it holds the lock never
\* releases it.
start_worker_task_delete(c) ==
    /\ task[c].pc = "task_kill"
    /\ \E holding \in (IF AtLockSection(task[c].handle) /\ ~mutexDead
                       THEN BOOLEAN ELSE {FALSE}) :
        mutexDead' = (mutexDead \/ holding)
    /\ wk' = [wk EXCEPT ![task[c].handle] = NoWorker]
    /\ Set(c, [task[c] EXCEPT !.pc = "wait_ready", !.handle = 0])
    /\ UNCHANGED << initv, s_state, s_server, s_task, s_task_exit, ready_bit,
                    s_max_open_sockets, httpd >>

\* start(): xEventGroupWaitBits(READY_BIT, kWorkerReadyTimeout) returns with
\* the bit set, or times out with the bit clear.
start_wait_ready(c) ==
    /\ task[c].pc = "wait_ready"
    /\ IF ready_bit
       THEN Ret(c, [Event(c, "start", "void", task[c].obs) EXCEPT
                       !.attempt = task[c].attempt])
       ELSE Goto(c, "swt_lock")
    /\ UNCHANGED shared

\* start(): all attempts failed.
start_final(c) ==
    /\ task[c].pc = "start_final"
    /\ lock_mutex
    /\ s_state' = "STOPPED"
    /\ ready_bit' = FALSE
    /\ Ret(c, [Event(c, "start", "void", task[c].obs) EXCEPT
                  !.attempt = task[c].attempt])
    /\ UNCHANGED << initv, mutexDead, s_server, s_task, s_task_exit,
                    s_max_open_sockets, httpd, wk >>

\* ------------------------------------------- stop_worker_task(), stop_server()

\* xTaskNotifyGive(t): the wake notification of a task that still exists is
\* set (ulTaskNotifyTake(pdTRUE) clears it whole, so it is one bit); given
\* to a handle whose task is gone it reaches no task.
xTaskNotifyGive(t) ==
    IF wk[t].pc # "none" THEN [wk EXCEPT ![t].notified = TRUE] ELSE wk

\* stop_worker_task(), first lock section.
stop_worker_task(c) ==
    /\ task[c].pc = "swt_lock"
    /\ lock_mutex
    /\ IF s_task = 0
       THEN /\ Goto(c, "ss_lock")
            /\ UNCHANGED s_task_exit
       ELSE /\ s_task_exit' = TRUE
            /\ Goto(c, "swt_nread")
    /\ UNCHANGED << initv, mutexDead, s_state, s_server, s_task, ready_bit,
                    s_max_open_sockets, httpd, wk >>

\* notify_worker(), its read of s_task (made without the lock); `next` is
\* where the caller goes on after notify_worker.
notify_worker_read(c, at, give, next) ==
    /\ task[c].pc = at
    /\ Set(c, IF s_task # 0 THEN [task[c] EXCEPT !.pc = give, !.nt = s_task]
                            ELSE [task[c] EXCEPT !.pc = next])
    /\ UNCHANGED shared

\* notify_worker(), its xTaskNotifyGive of the handle it read.
notify_worker_give(c, give, next) ==
    /\ task[c].pc = give
    /\ wk' = xTaskNotifyGive(task[c].nt)
    /\ Set(c, [task[c] EXCEPT !.pc = next, !.nt = 0])
    /\ UNCHANGED << initv, mutexDead, s_state, s_server, s_task, s_task_exit,
                    ready_bit, s_max_open_sockets, httpd >>

\* stop_worker_task(): one iteration of the polling loop.  The timed
\* lock_mutex may time out; then the iteration checks nothing.
stop_worker_task_poll(c) ==
    /\ task[c].pc = "swt_poll"
    /\ \E locked \in (IF mutexDead THEN {FALSE} ELSE BOOLEAN) :
        Set(c, IF locked /\ s_task = 0
               THEN [task[c] EXCEPT !.pc = "ss_lock", !.i = 0]
               ELSE IF task[c].i + 1 < cfg.polls
                    THEN [task[c] EXCEPT !.i = @ + 1]
                    ELSE [task[c] EXCEPT !.pc = "ss_lock", !.i = 0])
    /\ UNCHANGED shared

\* Where a caller goes on after stop_server(): start() to the backoff of the
\* failed attempt, stop() to its final lock section.
AfterStopServer(r) ==
    IF r.op = "start" THEN NextAttempt(r)
                      ELSE [r EXCEPT !.pc = "st_final", !.to_stop = 0]

\* stop_server() without the detachment: the handle stays in s_server while
\* httpd_stop runs on it.
stop_server_NoDetach(c) ==
    /\ task[c].pc = "ss_lock"
    /\ lock_mutex
    /\ Set(c, IF s_server = 0
              THEN AfterStopServer(task[c])
              ELSE [task[c] EXCEPT !.pc = "ss_httpd", !.to_stop = s_server])
    /\ UNCHANGED shared

\* stop_server(), its lock section: detach the handle.
stop_server(c) ==
    /\ task[c].pc = "ss_lock"
    /\ lock_mutex
    /\ IF s_server = 0
       THEN /\ Set(c, AfterStopServer(task[c]))
            /\ UNCHANGED s_server
       ELSE /\ s_server' = 0
            /\ Set(c, [task[c] EXCEPT !.pc = "ss_httpd", !.to_stop = s_server])
    /\ UNCHANGED << initv, mutexDead, s_state, s_task, s_task_exit, ready_bit,
                    s_max_open_sockets, httpd, wk >>

\* stop_server(): httpd_stop(to_stop), outside the lock.
stop_server_httpd_stop(c) ==
    /\ task[c].pc = "ss_httpd"
    /\ live' = live \ {task[c].to_stop}
    /\ handlers' = [handlers EXCEPT ![task[c].to_stop] = {}]
    /\ Set(c, AfterStopServer(task[c]))
    /\ UNCHANGED << initv, mutexDead, s_state, s_server, s_task, s_task_exit,
                    ready_bit, s_max_open_sockets, wk >>

\* ---------------------------------------------------------------- stop()

\* The states in which stop() returns at once.
StopNoOp_Never(st) == FALSE
StopNoOp(st) == st = "STOPPED"

\* stop(), from its entry to the end of its first lock section.
stop_check(c) ==
    /\ task[c].pc = "idle"
    /\ \E ok \in BOOLEAN :
        /\ ensure_mutex(ok)
        /\ IF ~ok
           THEN /\ Ret(c, Event(c, "stop", "void", "none"))
                /\ UNCHANGED << mutexDead, s_state, s_server, s_task, s_task_exit,
                                ready_bit, s_max_open_sockets, httpd, wk >>
           ELSE /\ lock_mutex
                /\ IF StopNoOp(s_state)
                   THEN /\ Ret(c, Event(c, "stop", "void", s_state))
                        /\ UNCHANGED << s_state, s_task_exit, ready_bit >>
                   ELSE /\ s_state' = "STOPPING"
                        /\ ready_bit' = FALSE
                        /\ s_task_exit' = TRUE
                        /\ Set(c, [Idle EXCEPT
                                     !.op = "stop", !.obs = s_state,
                                     !.pc = IF s_task # 0 THEN "st_nread"
                                                          ELSE "swt_lock"])
                /\ UNCHANGED << mutexDead, s_server, s_task, s_max_open_sockets,
                                httpd, wk >>

\* stop(), its final lock section.
stop_final(c) ==
    /\ task[c].pc = "st_final"
    /\ lock_mutex
    /\ s_state' = "STOPPED"
    /\ ready_bit' = FALSE
    /\ Ret(c, Event(c, "stop", "void", task[c].obs))
    /\ UNCHANGED << initv, mutexDead, s_server, s_task, s_task_exit,
                    s_max_open_sockets, httpd, wk >>

\* ------------------------------------------------------------ http_srv_task

\* The worker's first lock section: commit RUNNING and readiness.
WorkerCommits_AnyState(st) == s_evt
WorkerCommits(st) == st = "STARTING" /\ s_evt

http_srv_task_init(w) ==
    /\ wk[w].pc = "init"
    /\ lock_mutex
    /\ IF WorkerCommits(s_state)
       THEN s_state' = "RUNNING" /\ ready_bit' = TRUE
       ELSE UNCHANGED << s_state, ready_bit >>
    /\ wk' = [wk EXCEPT ![w].pc = "wait"]
    /\ UNCHANGED << initv, mutexDead, s_server, s_task, s_task_exit,
                    s_max_open_sockets, httpd, task, cfg, em, fsv >>
    /\ ev' = NoEvent

\* ulTaskNotifyTake(pdTRUE, portMAX_DELAY) returns once a notification is
\* pending, and clears it.
http_srv_task_take(w) ==
    /\ wk[w].pc = "wait"
    /\ wk[w].notified
    /\ wk' = [wk EXCEPT ![w] = [pc |-> "check", notified |-> FALSE]]
    /\ UNCHANGED << initv, mutexDead, s_state, s_server, s_task, s_task_exit,
                    ready_bit, s_max_open_sockets, httpd, task, cfg, em, fsv >>
    /\ ev' = NoEvent

\* The worker reads s_task_exit under the lock.
http_srv_task_check(w) ==
    /\ wk[w].pc = "check"
    /\ lock_mutex
    /\ wk' = [wk EXCEPT ![w].pc = IF s_task_exit THEN "exit" ELSE "wait"]
    /\ UNCHANGED << initv, mutexDead, s_state, s_server, s_task, s_task_exit,
                    ready_bit, s_max_open_sockets, httpd, task, cfg, em, fsv >>
    /\ ev' = NoEvent

\* The worker's exit: clear readiness and s_task under the lock, then
\* vTaskDelete(nullptr).
http_srv_task_exit(w) ==
    /\ wk[w].pc = "exit"
    /\ lock_mutex
    /\ ready_bit' = FALSE
    /\ s_task' = 0
    /\ wk' = [wk EXCEPT ![w] = NoWorker]
    /\ UNCHANGED << initv, mutexDead, s_state, s_server, s_task_exit,
                    s_max_open_sockets, httpd, task, cfg, em, fsv >>
    /\ ev' = NoEvent

\* ------------------------------------------------------------ is_running()

is_running(c) ==
    /\ task[c].pc = "idle"
    /\ \E ok \in BOOLEAN :
        /\ ensure_mutex(ok)
        /\ IF ~ok
           THEN Ret(c, Event(c, "is_running", "false", "none"))
           ELSE /\ lock_mutex
                /\ Ret(c, Event(c, "is_running",
                                IF s_state = "RUNNING" THEN "true" ELSE "false",
                                s_state))
    /\ UNCHANGED << mutexDead, s_state, s_server, s_task, s_task_exit, ready_bit,
                    s_max_open_sockets, httpd, wk >>

\* ---------------------------------------------------- wait_until_running()

\* The timeouts callers pass: a poll, and the example application's wait.
Timeouts == {0, 2000}

\* What wait_until_running returns from its lock section for the state it
\* reads there; "WAIT" is: it goes on to wait for READY_BIT.
WaitVerdict_StartingInvalid(st) ==
    IF st = "RUNNING" THEN "OK" ELSE "INVALID_STATE"
WaitVerdict(st) ==
    IF st = "RUNNING" THEN "OK"
    ELSE IF st = "STOPPED" \/ st = "STOPPING" THEN "INVALID_STATE"
    ELSE "WAIT"

\* wait_until_running(), from its entry to the end of its lock section.
wait_until_running(c) ==
    /\ task[c].pc = "idle"
    /\ \E ok \in BOOLEAN, t \in Timeouts :
        /\ ensure_mutex(ok)
        /\ IF ~ok
           THEN Ret(c, [Event(c, "wait_until_running", "FAIL", "none") EXCEPT
                           !.timeout = t])
           ELSE /\ lock_mutex
                /\ IF WaitVerdict(s_state) = "WAIT"
                   THEN Set(c, [Idle EXCEPT !.pc = "wur_wait",
                                            !.op = "wait_until_running",
                                            !.obs = s_state, !.timeout = t])
                   ELSE Ret(c, [Event(c, "wait_until_running",
                                      WaitVerdict(s_state), s_state) EXCEPT
                                   !.timeout = t])
    /\ UNCHANGED << mutexDead, s_state, s_server, s_task, s_task_exit, ready_bit,
                    s_max_open_sockets, httpd, wk >>

\* What xEventGroupWaitBits(READY_BIT, timeout) makes wait_until_running
\* return: OK with the bit set, ESP_ERR_TIMEOUT with the bit clear.
WaitBitsResult(bit) == IF bit THEN "OK" ELSE "TIMEOUT"

\* wait_until_running(): the wait on READY_BIT ends, with the bit set or by
\* the timeout.
wait_until_running_wait(c) ==
    /\ task[c].pc = "wur_wait"
    /\ Ret(c, [Event(c, "wait_until_running", WaitBitsResult(ready_bit),
                     task[c].obs) EXCEPT !.timeout = task[c].timeout])
    /\ UNCHANGED shared

\* ------------------------------------------ register_uri(), unregister_uri()

\* Handler pointers the callers pass ("NULL" is the null pointer).
CallerHandlers == {"NULL", "handle_ping"}

\* The states in which the public register_uri / unregister_uri reach the
\* transport.
RegAllowed_AsInternal(st, srv) == st \in {"STARTING", "RUNNING"} /\ srv # 0
RegAllowed(st, srv) == st = "RUNNING" /\ srv # 0

\* What register_uri returns for the transport's return code rc: rc itself.
RegisterResult_Swallowed(rc) == "OK"
RegisterResult(rc) == rc

register_uri(c) ==
    /\ task[c].pc = "idle"
    /\ \E uri \in CallerUris, handler \in CallerHandlers :
        LET e == [NoEvent EXCEPT !.c = c, !.op = "register_uri",
                                 !.uri = uri, !.handler = handler]
        IN  IF uri = "NULL" \/ handler = "NULL"
            THEN /\ Ret(c, [e EXCEPT !.ret = "INVALID_ARG"])
                 /\ UNCHANGED shared
            ELSE \E ok \in BOOLEAN :
                 /\ ensure_mutex(ok)
                 /\ UNCHANGED << mutexDead, s_state, s_server, s_task,
                                 s_task_exit, ready_bit, s_max_open_sockets,
                                 live, wk >>
                 /\ IF ~ok
                    THEN /\ Ret(c, [e EXCEPT !.ret = "FAIL"])
                         /\ UNCHANGED handlers
                    ELSE /\ lock_mutex
                         /\ IF ~RegAllowed(s_state, s_server)
                            THEN /\ Ret(c, [e EXCEPT !.ret = "INVALID_STATE",
                                                     !.obs = s_state])
                                 /\ UNCHANGED handlers
                            ELSE \E rc \in httpd_register_uri_handler(s_server, uri) :
                                 /\ Ret(c, [e EXCEPT !.ret = RegisterResult(rc),
                                                     !.obs = s_state])
                                 /\ handlers' =
                                      IF rc = "OK"
                                      THEN [handlers EXCEPT ![s_server] = @ \cup {uri}]
                                      ELSE handlers

unregister_uri(c) ==
    /\ task[c].pc = "idle"
    /\ \E uri \in CallerUris :
        LET e == [NoEvent EXCEPT !.c = c, !.op = "unregister_uri", !.uri = uri]
        IN  IF uri = "NULL"
            THEN /\ Ret(c, [e EXCEPT !.ret = "INVALID_ARG"])
                 /\ UNCHANGED shared
            ELSE \E ok \in BOOLEAN :
                 /\ ensure_mutex(ok)
                 /\ UNCHANGED << mutexDead, s_state, s_server, s_task,
                                 s_task_exit, ready_bit, s_max_open_sockets,
                                 live, wk >>
                 /\ IF ~ok
                    THEN /\ Ret(c, [e EXCEPT !.ret = "FAIL"])
                         /\ UNCHANGED handlers
                    ELSE /\ lock_mutex
                         /\ IF ~RegAllowed(s_state, s_server)
                            THEN /\ Ret(c, [e EXCEPT !.ret = "INVALID_STATE",
                                                     !.obs = s_state])
                                 /\ UNCHANGED handlers
                            ELSE \E rc \in httpd_unregister_uri_handler(s_server, uri) :
                                 /\ Ret(c, [e EXCEPT !.ret = rc, !.obs = s_state])
                                 /\ handlers' =
                                      IF rc = "OK"
                                      THEN [handlers EXCEPT ![s_server] = @ \ {uri}]
                                      ELSE handlers

\* ------------------------------------------------------ close_all_sessions()

\* The locals with which close_all_sessions_internal returns before it
\* touches the transport.
SessionsNoOp(st, srv, max_socks) == srv = 0 \/ max_socks = 0

\* close_all_sessions(), from its entry to the check of the locals read in
\* the lock section of close_all_sessions_internal.
close_all_sessions(c) ==
    /\ task[c].pc = "idle"
    /\ \E ok \in BOOLEAN :
        /\ ensure_mutex(ok)
        /\ IF ~ok
           THEN Ret(c, Event(c, "close_all_sessions", "void", "none"))
           ELSE /\ lock_mutex
                /\ IF SessionsNoOp(s_state, s_server, s_max_open_sockets)
                   THEN Ret(c, Event(c, "close_all_sessions", "void", s_state))
                   ELSE Set(c, [Idle EXCEPT !.pc = "cas_list",
                                            !.op = "close_all_sessions",
                                            !.obs = s_state,
                                            !.srv = s_server,
                                            !.max_socks = s_max_open_sockets])
    /\ UNCHANGED << mutexDead, s_state, s_server, s_task, s_task_exit, ready_bit,
                    s_max_open_sockets, httpd, wk >>

\* How many descriptors httpd_get_client_list can report into a buffer of
\* max_socks entries.
ClientCounts(max_socks) ==
    0 .. (IF max_socks < MaxClients THEN max_socks ELSE MaxClients)

\* close_all_sessions_internal(): httpd_get_client_list(srv, ...), outside
\* the lock.  It fails, or reports fds_len descriptors.
close_all_sessions_list(c) ==
    /\ task[c].pc = "cas_list"
    /\ \E rc \in {"OK", "FAIL"}, n \in ClientCounts(task[c].max_socks) :
        IF rc = "OK" /\ n > 0
        THEN Set(c, [task[c] EXCEPT !.pc = "cas_close", !.fds_len = n, !.i = 0])
        ELSE Ret(c, Event(c, "close_all_sessions", "void", task[c].obs))
    /\ UNCHANGED shared

\* close_all_sessions_internal(): one iteration of the loop,
\* httpd_sess_trigger_close(srv, fds[i]).
close_all_sessions_close(c) ==
    /\ task[c].pc = "cas_close"
    /\ IF task[c].i + 1 < task[c].fds_len
       THEN Set(c, [task[c] EXCEPT !.i = @ + 1])
       ELSE Ret(c, Event(c, "close_all_sessions", "void", task[c].obs))
    /\ UNCHANGED shared

\* ---------------------------------------------------------------- resolver

\* Strings are sequences of characters.
kFsBase == << "/", "l", "i", "t", "t", "l", "e", "f", "s" >>
GzSuffix == << ".", "g", "z" >>
HtmlSuffix == << ".", "h", "t", "m", "l" >>
HtmSuffix == << ".", "h", "t", "m" >>
IndexHtml == << "i", "n", "d", "e", "x", ".", "h", "t", "m", "l" >>

ends_with(s, suffix) ==
    /\ Len(s) >= Len(suffix)
    /\ SubSeq(s, Len(s) - Len(suffix) + 1, Len(s)) = suffix

\* std::string::resize(size() - n) of a string longer than n.
DropLast(s, n) == SubSeq(s, 1, Len(s) - n)

\* uri.find("..") != npos
has_dotdot_AtStartOnly(uri) ==
    Len(uri) >= 3 /\ uri[2] = "." /\ uri[3] = "."
has_dotdot(uri) ==
    \E i \in 1 .. Len(uri) - 1 : uri[i] = "." /\ uri[i + 1] = "."

content_type_for_path(path_no_gz) ==
    IF ends_with(path_no_gz, HtmSuffix) \/ ends_with(path_no_gz, HtmlSuffix)
    THEN "text/html; charset=utf-8"
    ELSE IF ends_with(path_no_gz, << ".", "c", "s", "s" >>)
    THEN "text/css; charset=utf-8"
    ELSE IF ends_with(path_no_gz, << ".", "j", "s" >>)
    THEN "application/javascript; charset=utf-8"
    ELSE IF ends_with(path_no_gz, << ".", "j", "s", "o", "n" >>)
    THEN "application/json; charset=utf-8"
    ELSE IF ends_with(path_no_gz, << ".", "s", "v", "g" >>)
    THEN "image/svg+xml"
    ELSE IF ends_with(path_no_gz, << ".", "p", "n", "g" >>)
    THEN "image/png"
    ELSE IF \/ ends_with(path_no_gz, << ".", "j", "p", "g" >>)
            \/ ends_with(path_no_gz, << ".", "j", "p", "e", "g" >>)
    THEN "image/jpeg"
    ELSE IF ends_with(path_no_gz, << ".", "g", "i", "f" >>)
    THEN "image/gif"
    ELSE IF ends_with(path_no_gz, << ".", "i", "c", "o" >>)
    THEN "image/x-icon"
    ELSE IF ends_with(path_no_gz, << ".", "w", "o", "f", "f", "2" >>)
    THEN "font/woff2"
    ELSE IF ends_with(path_no_gz, << ".", "w", "o", "f", "f" >>)
    THEN "font/woff"
    ELSE IF ends_with(path_no_gz, << ".", "t", "t", "f" >>)
    THEN "font/ttf"
    ELSE IF ends_with(path_no_gz, << ".", "m", "a", "p" >>)
    THEN "application/json; charset=utf-8"
    ELSE "text/plain; charset=utf-8"

\* fopen(full_path, "rb") succeeds.
file_exists(full_path, fset) == full_path \in fset

\* The lambda `full`: the storage path of a logical path.
full(p) == kFsBase \o p

\* resolve_fs_path: the logical path of an accepted uri.  A trailing
\* separator gets index.html appended; a ".gz" suffix is dropped.
WithIndex_NoDefault(uri) == uri
WithIndex(uri) ==
    LET appended == IF uri # << >> /\ uri[Len(uri)] = "/"
                    THEN uri \o IndexHtml ELSE uri
    IN  IF appended = << "/" >> THEN << "/" >> \o IndexHtml ELSE appended

logical_path(uri) ==
    IF ends_with(WithIndex(uri), GzSuffix) /\ Len(WithIndex(uri)) > 3
    THEN DropLast(WithIndex(uri), 3)
    ELSE WithIndex(uri)

\* resolve_fs_path: the candidates, the logical path and, for .html and
\* .htm, the other spelling.
candidates(logical) ==
    IF ends_with(logical, HtmlSuffix)
    THEN << logical, DropLast(logical, 5) \o HtmSuffix >>
    ELSE IF ends_with(logical, HtmSuffix)
    THEN << logical, DropLast(logical, 4) \o HtmlSuffix >>
    ELSE << logical >>

\* resolve_fs_path: the two probes of one iteration of the candidate loop,
\* in the order they are made.
Probes_PlainFirst(cand) ==
    << [path |-> full(cand), is_gz |-> FALSE],
       [path |-> full(cand \o GzSuffix), is_gz |-> TRUE] >>
Probes(cand) ==
    << [path |-> full(cand \o GzSuffix), is_gz |-> TRUE],
       [path |-> full(cand), is_gz |-> FALSE] >>

\* resolve_fs_path: the candidate loop from candidate n on; `probes` are the
\* probes made before.
RECURSIVE ProbeLoop(_, _, _, _)
ProbeLoop(cands, n, fset, probes) ==
    IF n > Len(cands)
    THEN NotResolved(probes)
    ELSE LET first  == Probes(cands[n])[1]
             second == Probes(cands[n])[2]
         IN  IF file_exists(first.path, fset)
             THEN [ok |-> TRUE, full_path |-> first.path,
                   ctype |-> content_type_for_path(cands[n]),
                   is_gz |-> first.is_gz,
                   probes |-> Append(probes, first.path)]
             ELSE IF file_exists(second.path, fset)
             THEN [ok |-> TRUE, full_path |-> second.path,
                   ctype |-> content_type_for_path(cands[n]),
                   is_gz |-> second.is_gz,
                   probes |-> probes \o << first.path, second.path >>]
             ELSE ProbeLoop(cands, n + 1, fset,
                            probes \o << first.path, second.path >>)

resolve_fs_path(uri, fset) ==
    IF uri = << >> \/ uri[1] # "/"
    THEN NotResolved(<< >>)
    ELSE IF has_dotdot(uri)
    THEN NotResolved(<< >>)
    ELSE ProbeLoop(candidates(logical_path(uri)), 1, fset, << >>)

\* ------------------------------------------------------------ specification

\* One step of caller c: the next lock section, or the next thing it does
\* outside the lock, of the call it is in; or the entry of a new call.
LifecycleStep(c) ==
    \/ start_check(c)
    \/ start_server(c)
    \/ start_server_register(c)
    \/ start_worker_task(c)
    \/ start_worker_task_create(c)
    \/ start_worker_task_store(c)
    \/ start_worker_task_delete(c)
    \/ start_wait_ready(c)
    \/ start_final(c)
    \/ stop_check(c)
    \/ notify_worker_read(c, "st_nread", "st_ngive", "swt_lock")
    \/ notify_worker_give(c, "st_ngive", "swt_lock")
    \/ stop_worker_task(c)
    \/ notify_worker_read(c, "swt_nread", "swt_ngive", "swt_poll")
    \/ notify_worker_give(c, "swt_ngive", "swt_poll")
    \/ stop_worker_task_poll(c)
    \/ stop_server(c)
    \/ stop_server_httpd_stop(c)
    \/ stop_final(c)

CallerStep(c) ==
    \/ LifecycleStep(c)
    \/ is_running(c)
    \/ wait_until_running(c)
    \/ wait_until_running_wait(c)
    \/ register_uri(c)
    \/ unregister_uri(c)

\* One step of the worker task in control block w.
WorkerStep(w) ==
    \/ http_srv_task_init(w)
    \/ http_srv_task_take(w)
    \/ http_srv_task_check(w)
    \/ http_srv_task_exit(w)

Next ==
    \/ \E c \in Callers : CallerStep(c)
    \/ \E w \in Workers : WorkerStep(w)

Spec == Init /\ [][Next]_vars

\* One step of caller c when it calls close_all_sessions().
SessionsStep(c) ==
    \/ close_all_sessions(c)
    \/ close_all_sessions_list(c)
    \/ close_all_sessions_close(c)

\* Tasks that call start(), stop() and close_all_sessions().
NextSessions ==
    \/ \E c \in Callers : LifecycleStep(c)
    \/ \E c \in Callers : SessionsStep(c)
    \/ \E w \in Workers : WorkerStep(w)

SpecSessions == Init /\ [][NextSessions]_vars

\* The task of the example application, app_main.
Main == "t1"

\* One task calls the API; the loops run to the limits the code has.
InitSolo ==
    /\ InitShared
    /\ InitFs
    /\ cfg = [attempts |-> kMaxAttempts, polls |-> kStopPolls,
              littlefs |-> CONFIG_HTTP_SERVER_ENABLE_LITTLEFS]

\* One step of the only caller.  It never finds a second worker handle
\* stored by another task, so it never deletes a surplus worker; and it is
\* never in wait_until_running while the state is STARTING, which it is
\* only inside start().
SoloStep ==
    \/ start_check(Main)
    \/ start_server(Main)
    \/ start_server_register(Main)
    \/ start_worker_task(Main)
    \/ start_worker_task_create(Main)
    \/ start_worker_task_store(Main)
    \/ start_wait_ready(Main)
    \/ start_final(Main)
    \/ stop_check(Main)
    \/ notify_worker_read(Main, "st_nread", "st_ngive", "swt_lock")
    \/ notify_worker_give(Main, "st_ngive", "swt_lock")
    \/ stop_worker_task(Main)
    \/ notify_worker_read(Main, "swt_nread", "swt_ngive", "swt_poll")
    \/ notify_worker_give(Main, "swt_ngive", "swt_poll")
    \/ stop_worker_task_poll(Main)
    \/ stop_server(Main)
    \/ stop_server_httpd_stop(Main)
    \/ stop_final(Main)
    \/ is_running(Main)
    \/ wait_until_running(Main)
    \/ register_uri(Main)
    \/ unregister_uri(Main)

NextSolo ==
    \/ SoloStep
    \/ \E w \in Workers : WorkerStep(w)

SpecSolo == InitSolo /\ [][NextSolo]_vars

\* ---------------------------------------------------- the built-in handlers

status_for(code) ==
    IF code = 200 THEN "200 OK"
    ELSE IF code = 202 THEN "202 Accepted"
    ELSE IF code = 204 THEN "204 No Content"
    ELSE IF code = 302 THEN "302 Found"
    ELSE IF code = 400 THEN "400 Bad Request"
    ELSE IF code = 403 THEN "403 Forbidden"
    ELSE IF code = 404 THEN "404 Not Found"
    ELSE IF code = 405 THEN "405 Method Not Allowed"
    ELSE IF code = 409 THEN "409 Conflict"
    ELSE IF code = 413 THEN "413 Payload Too Large"
    ELSE IF code = 415 THEN "415 Unsupported Media Type"
    ELSE "500 Internal Server Error"

set_no_cache_headers(r) == [r EXCEPT !.no_cache = TRUE]

\* What a send primitive returns; `sent` is whether the connection took
\* the bytes.
SendResult(sent) == IF sent THEN "OK" ELSE "RESP_SEND"

\* One piece handed to the connection with the response fields set so far:
\* a whole response ("send"), a chunk of a chunked response ("chunk") or
\* the terminating empty chunk ("end").  A chunk carries the `len` bytes of
\* the file from offset `off` on.
Piece(r, kind, body, off, len, sent) ==
    [kind |-> kind, status |-> r.status, ctype |-> r.ctype,
     no_cache |-> r.no_cache, gzip |-> r.gzip, body |-> body,
     off |-> off, len |-> len, sent |-> sent]

httpd_resp_send(r, body, sent) ==
    [r EXCEPT !.out = Append(@, Piece(r, "send", body, 0, 0, sent)),
              !.ret = SendResult(sent)]

httpd_resp_send_chunk(r, off, len, sent) ==
    [r EXCEPT !.out = Append(@, Piece(r, IF len = 0 THEN "end" ELSE "chunk",
                                      "file", off, len, sent)),
              !.ret = SendResult(sent)]

\* The lengths of the files that are streamed: around every multiple of the
\* buffer size up to MaxChunks buffers.
FileSizes ==
    {k * kBufSize + d : k \in 0 .. MaxChunks - 1, d \in {0, 1, kBufSize - 1}}
    \cup {MaxChunks * kBufSize}

\* What fread(buf, 1, sizeof(buf), f) returns at offset pos of a file of
\* `size` bytes when the read succeeds.
fread_HalfBuffer(size, pos) ==
    IF size - pos < kBufSize \div 2 THEN size - pos ELSE kBufSize \div 2
fread(size, pos) ==
    IF size - pos < kBufSize THEN size - pos ELSE kBufSize

\* What it can return when the read fails: fewer bytes than are there.
ShortReads(size, pos) == {n \in {0, 1} : n < fread(size, pos)}

send_text(r, code, ctype, body, sent) ==
    httpd_resp_send([r EXCEPT !.status = status_for(code), !.ctype = ctype],
                    body, sent)

send_template(r, tmpl, ctype, sent) ==
    send_text(set_no_cache_headers(r), 200, ctype, tmpl, sent)

\* The request lines the server hands to the two handlers.  The uri keeps
\* its query string.
SlashIndexHtml == << "/", "i", "n", "d", "e", "x", ".", "h", "t", "m", "l" >>
SlashIndexHtm == << "/", "i", "n", "d", "e", "x", ".", "h", "t", "m" >>
SlashFavicon == << "/", "f", "a", "v", "i", "c", "o", "n", ".", "i", "c", "o" >>
Requests ==
    ({"handle_root"} \X {<< "/" >>, SlashIndexHtml, SlashIndexHtm,
                         << "/", "?", "a", "=", ".", "." >>})
    \cup ({"handle_favicon_ico"} \X {SlashFavicon})

\* The files a mounted site may hold.
ServedFiles ==
    { full(SlashIndexHtml \o GzSuffix), full(SlashIndexHtml),
      full(SlashIndexHtm), full(SlashFavicon) }

\* A started server with the default routes, ready to serve.  In a build
\* with file serving start_server has made its mount call, which succeeded
\* or failed.
InitServing ==
    /\ em = NoInit
    /\ s_mutex = TRUE
    /\ s_evt = TRUE
    /\ mutexDead = FALSE
    /\ s_state = "RUNNING"
    /\ s_server = 1
    /\ s_task = 1
    /\ s_task_exit = FALSE
    /\ ready_bit = TRUE
    /\ s_max_open_sockets = kMaxOpenSockets
    /\ live = {1}
    /\ handlers = [h \in Servers |->
                     IF h = 1 THEN {DefaultRoutes[i] : i \in DOMAIN DefaultRoutes}
                              ELSE {}]
    /\ wk = [w \in Workers |->
               IF w = 1 THEN [pc |-> "wait", notified |-> FALSE] ELSE NoWorker]
    /\ task = [c \in Callers |-> Idle]
    /\ ev = NoEvent
    /\ \E fs \in BOOLEAN :
          cfg = [attempts |-> kMaxAttempts, polls |-> kStopPolls, littlefs |-> fs]
    /\ files \in SUBSET ServedFiles
    /\ \E first \in {"OK", "FAIL"} :
          /\ mount_log = IF cfg.littlefs THEN << first >> ELSE << >>
          /\ s_fs_mounted = (cfg.littlefs /\ first = "OK")
    /\ rq = NoRequest

\* A step of the server task changes the request only.
Serve(r) ==
    /\ rq' = r
    /\ UNCHANGED << shared, task, ev, cfg, em, files, s_fs_mounted, mount_log >>

\* The server task calls the handler registered for the request.
httpd_uri(h, uri) ==
    /\ rq.pc = "none"
    /\ Len(mount_log) < MaxMounts
    /\ Serve([NoRequest EXCEPT !.pc = "try", !.handler = h, !.uri = uri])

\* try_serve_from_fs up to its call of ensure_fs_mounted.
try_serve_from_fs ==
    /\ rq.pc = "try"
    /\ Serve(IF ~cfg.littlefs
             THEN [rq EXCEPT !.pc = "handler", !.rc = "NOT_SUPPORTED"]
             ELSE IF rq.uri = << >>
             THEN [rq EXCEPT !.pc = "handler", !.rc = "INVALID_REQ"]
             ELSE [rq EXCEPT !.pc = "mount"])

\* ensure_fs_mounted, one lock section, and what try_serve_from_fs makes of
\* its result.
ensure_fs_mounted ==
    /\ rq.pc = "mount"
    /\ lock_mutex
    /\ IF s_fs_mounted
       THEN /\ rq' = [rq EXCEPT !.pc = "resolve"]
            /\ UNCHANGED << s_fs_mounted, mount_log >>
       ELSE \E rc \in {"OK", "FAIL"} :
               /\ mount_log' = Append(mount_log, rc)
               /\ s_fs_mounted' = (rc = "OK")
               /\ rq' = IF rc = "OK"
                        THEN [rq EXCEPT !.pc = "resolve"]
                        ELSE [rq EXCEPT !.pc = "handler", !.rc = "NOT_SUPPORTED"]
    /\ UNCHANGED << shared, task, ev, cfg, em, files >>

\* try_serve_from_fs: the call of resolve_fs_path.
try_serve_resolve ==
    /\ rq.pc = "resolve"
    /\ LET res == resolve_fs_path(rq.uri, files)
       IN  Serve(IF res.ok
                 THEN [rq EXCEPT !.pc = "open", !.res = res]
                 ELSE [rq EXCEPT !.pc = "handler", !.res = res,
                                 !.rc = "NOT_FOUND"])

\* send_file_stream up to its read loop.  fopen may fail although the probe
\* has just opened the file.
send_file_stream ==
    /\ rq.pc = "open"
    /\ \E opened \in BOOLEAN, sent \in BOOLEAN :
          IF opened
          THEN /\ sent
               /\ \E size \in FileSizes :
                     Serve([set_no_cache_headers(rq) EXCEPT
                              !.pc = "stream", !.ctype = rq.res.ctype,
                              !.gzip = rq.res.is_gz, !.size = size])
          ELSE LET r == send_text(rq, 500, "text/plain; charset=utf-8",
                                  "File open failed", sent)
               IN  Serve([r EXCEPT !.pc = "handler", !.rc = r.ret])

\* send_file_stream: one round of the read loop.  The read succeeds, or it
\* fails and returns a short count; the streamer does not tell the two
\* apart.
send_file_stream_read ==
    /\ rq.pc = "stream"
    /\ \E n \in {fread(rq.size, rq.pos)} \cup ShortReads(rq.size, rq.pos),
          sent \in BOOLEAN :
          /\ n = 0 => sent
          /\ LET q == [rq EXCEPT !.pos = @ + n,
                                 !.rderr = @ \/ n # fread(rq.size, rq.pos)]
                 r == IF n = 0 THEN q
                      ELSE httpd_resp_send_chunk(q, rq.pos, n, sent)
             IN  Serve(IF ~sent
                       THEN [r EXCEPT !.pc = "handler", !.rc = r.ret]
                       ELSE IF n < kBufSize
                       THEN [r EXCEPT !.pc = "stream_end"]
                       ELSE r)

\* send_file_stream: the terminating chunk.
send_file_stream_end ==
    /\ rq.pc = "stream_end"
    /\ \E sent \in BOOLEAN :
          LET r == httpd_resp_send_chunk(rq, rq.pos, 0, sent)
          IN  Serve([r EXCEPT !.pc = "handler", !.rc = r.ret])

\* handle_root and handle_favicon_ico after try_serve_from_fs has returned.
handle_return ==
    /\ rq.pc = "handler"
    /\ \E sent \in BOOLEAN :
          IF rq.rc = "OK"
          THEN /\ sent
               /\ Serve([rq EXCEPT !.pc = "done", !.ret = "OK"])
          ELSE IF rq.rc \notin {"NOT_FOUND", "NOT_SUPPORTED"}
          THEN Serve([send_text(rq, 500, "text/plain; charset=utf-8",
                                "Internal file server error", sent)
                      EXCEPT !.pc = "done"])
          ELSE IF rq.handler = "handle_root"
          THEN Serve([send_template(rq, "kRoot", "text/html; charset=utf-8",
                                    sent)
                      EXCEPT !.pc = "done"])
          ELSE Serve([httpd_resp_send(
                          [set_no_cache_headers(rq) EXCEPT
                              !.ctype = "image/x-icon"],
                          "kFaviconIco", sent)
                      EXCEPT !.pc = "done"])

\* The handler has returned; the server task is free for the next request.
httpd_uri_return ==
    /\ rq.pc = "done"
    /\ Serve(NoRequest)

NextServing ==
    \/ \E q \in Requests : httpd_uri(q[1], q[2])
    \/ try_serve_from_fs
    \/ ensure_fs_mounted
    \/ try_serve_resolve
    \/ send_file_stream
    \/ send_file_stream_read
    \/ send_file_stream_end
    \/ handle_return
    \/ httpd_uri_return

SpecServing == InitServing /\ [][NextServing]_vars

\* ------------------------------------------------- the resolver on its own

\* The uris the resolver is applied to: every string of at most MaxUriLen
\* characters over a separator, a dot and a letter, and some longer paths.
UriAlphabet == {"/", ".", "a"}
ShortUris == UNION {[1 .. n -> UriAlphabet] : n \in 0 .. MaxUriLen}
SampleUris ==
    { << "/" >>,
      << "/", "i", "n", "d", "e", "x", ".", "h", "t", "m", "l" >>,
      << "/", "i", "n", "d", "e", "x", ".", "h", "t", "m" >>,
      << "/", "p", "a", "g", "e", ".", "h", "t", "m", "l" >>,
      << "/", "p", "a", "g", "e", ".", "h", "t", "m" >>,
      << "/", "p", "a", "g", "e", ".", "h", "t", "m", "l", ".", "g", "z" >>,
      << "/", ".", ".", "/", "s", "e", "c", "r", "e", "t" >>,
      << "/", "a", "/", ".", ".", "/", "s", "e", "c", "r", "e", "t" >>,
      << "/", "f", "a", "v", "i", "c", "o", "n", ".", "i", "c", "o" >>,
      << "/", "a", ".", "g", "z" >>,
      << "/", "a", ".", "g", "z", ".", "g", "z" >>,
      << "/", "a", "p", "p", ".", "j", "s" >> }
ResolverUris == ShortUris \cup SampleUris

\* The storage paths that may exist on the mount.
FileUniverse ==
    { full(<< "/", "i", "n", "d", "e", "x", ".", "h", "t", "m", "l", ".", "g", "z" >>),
      full(<< "/", "i", "n", "d", "e", "x", ".", "h", "t", "m", "l" >>),
      full(<< "/", "i", "n", "d", "e", "x", ".", "h", "t", "m" >>),
      full(<< "/", "p", "a", "g", "e", ".", "h", "t", "m", "l", ".", "g", "z" >>),
      full(<< "/", "p", "a", "g", "e", ".", "h", "t", "m", "l" >>),
      full(<< "/", "p", "a", "g", "e", ".", "h", "t", "m" >>),
      full(<< "/", ".", ".", "/", "s", "e", "c", "r", "e", "t" >>),
      full(<< "/", "a" >>),
      full(<< "/", "a", ".", "g", "z" >>) }

InitResolver ==
    /\ InitShared
    /\ cfg = [attempts |-> kMaxAttempts, polls |-> kStopPolls,
              littlefs |-> TRUE]
    /\ files \in SUBSET FileUniverse
    /\ s_fs_mounted = TRUE
    /\ mount_log = << "OK" >>
    /\ rq = NoRequest

\* One call of resolve_fs_path.
resolve(uri) ==
    /\ rq.pc = "none"
    /\ rq' = [NoRequest EXCEPT !.pc = "resolved", !.uri = uri,
                               !.res = resolve_fs_path(uri, files)]
    /\ UNCHANGED << shared, task, ev, cfg, em, files, s_fs_mounted, mount_log >>

\* The caller has used the result.
resolve_return ==
    /\ rq.pc = "resolved"
    /\ rq' = NoRequest
    /\ UNCHANGED << shared, task, ev, cfg, em, files, s_fs_mounted, mount_log >>

\* A file is removed from the mount between two requests.
unlink(f) ==
    /\ rq.pc = "none"
    /\ f \in files
    /\ files' = files \ {f}
    /\ UNCHANGED << shared, task, ev, cfg, em, s_fs_mounted, mount_log, rq >>

NextResolver ==
    \/ \E uri \in ResolverUris : resolve(uri)
    \/ resolve_return
    \/ \E f \in FileUniverse : unlink(f)

SpecResolver == InitResolver /\ [][NextResolver]_vars


\* ------------------------------------------- specification of first calls
\* Every API function begins with ensure_mutex, lock_mutex, and ends its lock
\* section with unlock_mutex.  Here these are followed statement by
\* statement, for tasks that make their calls while nothing exists yet;
\* the lock section itself is one position, "cs".

\* A step of a call changes the objects, and with them whether s_mutex and
\* s_evt are set.
FirstStep(e) ==
    /\ em' = e
    /\ s_mutex' = (e.mutex # 0)
    /\ s_evt' = (e.evt # 0)
    /\ UNCHANGED << mutexDead, s_state, s_server, s_task, s_task_exit,
                    ready_bit, s_max_open_sockets, httpd, wk, task, ev, cfg,
                    fsv >>

\* Task c enters an API function.
api_call(c) ==
    /\ em.pc[c] = "idle"
    /\ FirstStep([em EXCEPT !.pc[c] = "em_mutex"])

\* What `if (s_mutex == nullptr)` and `if (s_evt == nullptr)` test; the task
\* is committed to the outcome from then on.
NeedsObject(handle) == handle = 0

\* ensure_mutex: the test of s_mutex.
ensure_mutex_test(c) ==
    /\ em.pc[c] = "em_mutex"
    /\ FirstStep([em EXCEPT !.pc[c] = IF NeedsObject(em.mutex)
                                       THEN "em_create" ELSE "em_evt"])

\* ensure_mutex: s_mutex = xSemaphoreCreateMutex().  The result is stored
\* whatever s_mutex has become since the test.
ensure_mutex_create(c) ==
    /\ em.pc[c] = "em_create"
    /\ \E ok \in BOOLEAN :
          IF ok
          THEN /\ em.locks < MaxLocks
               /\ FirstStep([em EXCEPT !.locks = @ + 1, !.mutex = em.locks + 1,
                                       !.pc[c] = "em_evt"])
          ELSE FirstStep([em EXCEPT !.mutex = 0, !.pc[c] = "idle"])

\* ensure_mutex: the test of s_evt.
ensure_evt_test(c) ==
    /\ em.pc[c] = "em_evt"
    /\ FirstStep([em EXCEPT !.pc[c] = IF NeedsObject(em.evt)
                                       THEN "em_evt_create" ELSE "lock"])

\* ensure_mutex: s_evt = xEventGroupCreate(); on failure the lock s_mutex
\* names at that moment is deleted and s_mutex cleared.
ensure_evt_create(c) ==
    /\ em.pc[c] = "em_evt_create"
    /\ \E ok \in BOOLEAN :
          IF ok
          THEN /\ em.groups < MaxLocks
               /\ FirstStep([em EXCEPT !.groups = @ + 1, !.evt = em.groups + 1,
                                       !.pc[c] = "lock"])
          ELSE FirstStep([em EXCEPT
                            !.deleted = IF em.mutex = 0 THEN @
                                        ELSE @ \cup {em.mutex},
                            !.mutex = 0, !.evt = 0, !.pc[c] = "idle"])

\* lock_mutex: the handle is read; the call fails when it is null.
lock_mutex_read(c) ==
    /\ em.pc[c] = "lock"
    /\ FirstStep(IF em.mutex = 0
                 THEN [em EXCEPT !.pc[c] = "idle"]
                 ELSE [em EXCEPT !.pc[c] = "take", !.tk[c] = em.mutex])

\* lock_mutex: xSemaphoreTake returns once the lock it was given is free.
\* Taking a deleted lock is a use after free: it may return at once.
xSemaphoreTake(c) ==
    /\ em.pc[c] = "take"
    /\ \/ /\ em.tk[c] \notin em.deleted
          /\ em.holder[em.tk[c]] = "none"
          /\ FirstStep([em EXCEPT !.holder[em.tk[c]] = c, !.pc[c] = "cs"])
       \/ /\ em.tk[c] \in em.deleted
          /\ FirstStep([em EXCEPT !.pc[c] = "cs"])

\* unlock_mutex: gives the lock s_mutex names now, which is the one the
\* task took only if s_mutex has not changed.
unlock_mutex(c) ==
    /\ em.pc[c] = "cs"
    /\ FirstStep([em EXCEPT
                    !.holder = IF em.mutex = 0 \/ em.mutex \in em.deleted
                               THEN @
                               ELSE [@ EXCEPT ![em.mutex] = "none"],
                    !.pc[c] = "idle", !.tk[c] = 0])

NextFirst ==
    \E c \in Callers :
       \/ api_call(c)
       \/ ensure_mutex_test(c)
       \/ ensure_mutex_create(c)
       \/ ensure_evt_test(c)
       \/ ensure_evt_create(c)
       \/ lock_mutex_read(c)
       \/ xSemaphoreTake(c)
       \/ unlock_mutex(c)

SpecFirst == Init /\ [][NextFirst]_vars

\* ------------------------------------------------------------------ claims

\* C1: every change of the lifecycle state is one of STOPPED->STARTING,
\* STARTING->RUNNING, RUNNING->STOPPING, STOPPING->STOPPED or
\* STARTING->STOPPED; no other transition ever occurs.
C1_OnlyListedTransitions ==
    [][s_state' # s_state =>
         << s_state, s_state' >> \in {<< "STOPPED", "STARTING" >>,
                                      << "STARTING", "RUNNING" >>,
                                      << "RUNNING", "STOPPING" >>,
                                      << "STOPPING", "STOPPED" >>,
                                      << "STARTING", "STOPPED" >>}]_vars

\* C2: in every reachable state, if the readiness bit is set then the
\* lifecycle state is RUNNING and the server handle is non-null.
C2_ReadyImpliesRunningWithServer ==
    ready_bit => (s_state = "RUNNING" /\ s_server # 0)

\* C3: in every reachable state in which the lifecycle state is RUNNING, the
\* server handle and the worker-task handle are both non-null.
C3_RunningImpliesHandles ==
    s_state = "RUNNING" => (s_server # 0 /\ s_task # 0)

\* C4: when a start() call returns after every one of its attempts failed,
\* the state is STOPPED, the readiness bit is clear and the server handle and
\* the worker-task handle are both null.
C4_ExhaustedStartLeavesNothing ==
    (ev.op = "start" /\ ev.obs = "STOPPED" /\ ev.attempt = cfg.attempts) =>
        (s_state = "STOPPED" /\ ~ready_bit /\ s_server = 0 /\ s_task = 0)

\* C5: a start() call that finds the lifecycle state RUNNING, STARTING or
\* STOPPING returns at once and changes nothing: the state, the readiness
\* bit, the exit-requested flag, the server handle and the worker-task handle
\* are unchanged, no server is brought up and no task is created.
C5_StartNoOpChangesNothing ==
    [][\A c \in Callers :
         (/\ task[c].pc = "idle"
          /\ task'[c].op = "start" \/ (ev'.c = c /\ ev'.op = "start")
          /\ s_state \in {"RUNNING", "STARTING", "STOPPING"})
         => (/\ task'[c] = Idle
             /\ ev' = Event(c, "start", "void", s_state)
             /\ UNCHANGED << s_state, ready_bit, s_task_exit, s_server, s_task >>
             /\ UNCHANGED << live, handlers, wk, s_max_open_sockets >>
             /\ UNCHANGED << s_mutex, s_evt, mutexDead >>)]_vars

\* A start() call found the state STOPPING (a stop() is under way) and
\* returned.
C5_Witness ==
    /\ ev.op = "start"
    /\ ev.obs = "STOPPING"
    /\ s_state = "STOPPING"
    /\ \E c \in Callers : task[c].op = "stop"

\* C6: a stop() call that finds the lifecycle state STOPPED returns at once:
\* the state, the readiness bit, the exit-requested flag, the server handle
\* and the worker handle are unchanged, no worker is notified and no server
\* is torn down.
C6_StopNoOpChangesNothing ==
    [][\A c \in Callers :
         (/\ task[c].pc = "idle"
          /\ task'[c].op = "stop" \/ (ev'.c = c /\ ev'.op = "stop")
          /\ s_state = "STOPPED")
         => (/\ task'[c] = Idle
             /\ ev'.c = c /\ ev'.op = "stop" /\ ev'.obs \in {"STOPPED", "none"}
             /\ UNCHANGED << s_state, ready_bit, s_task_exit, s_server, s_task >>
             /\ UNCHANGED << live, handlers, wk, s_max_open_sockets, mutexDead >>)]_vars

\* A stop() call found the state STOPPED after an earlier stop() had gone
\* through the whole teardown, and returned.
C6_Witness ==
    /\ ev.op = "stop"
    /\ ev.obs = "STOPPED"
    /\ s_state = "STOPPED"
    /\ s_mutex /\ s_evt
    /\ s_max_open_sockets = kMaxOpenSockets

\* C7: no start() call and no stop() call is ever left unable to go on: a
\* caller inside one of them always has a next step it can take (and the
\* loops of both are bounded), so that under fair scheduling it returns.
C7_CallsNeverBlocked ==
    \A c \in Callers :
        task[c].op \in {"start", "stop"} => ENABLED CallerStep(c)

\* C8: when a stop() call that began in a state other than STOPPED returns,
\* the state is STOPPED, the readiness bit is clear and the server handle is
\* null.
C8_StopLeavesStoppedNoServer ==
    (ev.op = "stop" /\ ev.obs \in {"STARTING", "RUNNING", "STOPPING"}) =>
        (s_state = "STOPPED" /\ ~ready_bit /\ s_server = 0)

\* C9: wait_until_running returns OK without waiting when the state it reads
\* under the lock is RUNNING (is_running() returns true there), and
\* InvalidState without waiting when that state is STOPPED or STOPPING; it
\* waits on the readiness bit, with the caller's timeout, only when the
\* state is STARTING, and that wait returns OK if the bit is set when it
\* ends and Timeout if not.  No step of it changes the state, the handles or
\* the readiness bit.
C9_WaitUntilRunningVerdicts ==
    [][\A c \in Callers :
         LET entry    == /\ task[c].pc = "idle"
                         /\ \/ task'[c].op = "wait_until_running"
                            \/ ev'.c = c /\ ev'.op = "wait_until_running"
             waitEnds == task[c].pc = "wur_wait" /\ task'[c] # task[c]
             polled   == /\ task[c].pc = "idle"
                         /\ ev'.c = c /\ ev'.op = "is_running"
         IN  /\ (entry /\ s_state = "RUNNING") =>
                    (task'[c] = Idle /\ ev'.ret = "OK" /\ ev'.obs = "RUNNING")
             /\ (entry /\ s_state \in {"STOPPED", "STOPPING"}) =>
                    (/\ task'[c] = Idle
                     /\ \/ ev'.ret = "INVALID_STATE" /\ ev'.obs = s_state
                        \/ ev'.ret = "FAIL" /\ ev'.obs = "none" /\ ~s_mutex')
             /\ (entry /\ s_state = "STARTING") =>
                    (/\ task'[c].pc = "wur_wait"
                     /\ task'[c].timeout \in Timeouts
                     /\ ev' = NoEvent)
             /\ waitEnds =>
                    (/\ task[c].obs = "STARTING"
                     /\ task'[c] = Idle
                     /\ ev'.c = c /\ ev'.op = "wait_until_running"
                     /\ ev'.timeout = task[c].timeout
                     /\ ev'.ret = IF ready_bit THEN "OK" ELSE "TIMEOUT")
             /\ (polled /\ s_state = "RUNNING") => ev'.ret = "true"
             /\ (polled /\ s_state # "RUNNING") => ev'.ret = "false"
             /\ (entry \/ waitEnds) =>
                    (/\ UNCHANGED << s_state, s_server, s_task, ready_bit >>
                     /\ UNCHANGED << s_task_exit, live, handlers, wk >>)]_vars

\* A wait_until_running(2000) call that found the state STARTING waited and
\* returned OK, the worker having set the readiness bit.
C9_Witness ==
    /\ ev.op = "wait_until_running"
    /\ ev.obs = "STARTING"
    /\ ev.ret = "OK"
    /\ ev.timeout = 2000
    /\ ready_bit

C11_RegistrationOnlyOnAttachedHandle ==
    [][\A c \in Callers :
         (/\ task[c].pc = "idle"
          /\ ev'.c = c
          /\ ev'.op \in {"register_uri", "unregister_uri"}
          /\ ev'.ret \in {"OK", "HANDLER_EXISTS", "NOT_FOUND"})
         => (/\ s_server # 0
             /\ s_server \in live
             /\ \A d \in Callers : task[d].to_stop # s_server)]_vars

\* register_uri reached the transport and returned OK while another task
\* was inside httpd_stop of a handle it had detached.
C11_Witness ==
    /\ ev.op = "register_uri"
    /\ ev.ret = "OK"
    /\ \E d \in Callers : task[d].pc = "ss_httpd" /\ task[d].to_stop # 0

\* C12: close_all_sessions never calls httpd_get_client_list or
\* httpd_sess_trigger_close on a server handle whose teardown has been done:
\* at every such call the handle is a live server instance.
C12_SessionsOnlyOnLiveHandle ==
    [][\A c \in Callers :
         (task[c].pc \in {"cas_list", "cas_close"} /\ task'[c] # task[c])
         => task[c].srv \in live]_vars

\* C13: a close_all_sessions() call that finds the lifecycle state other
\* than RUNNING, or the socket ceiling zero, returns at once: it enumerates
\* no sessions and modifies no shared state.
C13_SessionsNoOpUnlessRunning ==
    [][\A c \in Callers :
         (/\ task[c].pc = "idle"
          /\ \/ task'[c].op = "close_all_sessions"
             \/ ev'.c = c /\ ev'.op = "close_all_sessions"
          /\ s_state # "RUNNING" \/ s_max_open_sockets = 0)
         => (/\ task'[c] = Idle
             /\ UNCHANGED << mutexDead, s_state, s_server, s_task, s_task_exit,
                             ready_bit, s_max_open_sockets, httpd, wk >>)]_vars

\* C14: with one task using the API (start(); wait_until_running();
\* register_uri(), as in the example application), a register_uri call made
\* while the state is RUNNING reaches the server and, for a path that is
\* not registered yet, returns OK and adds exactly that registration; for a
\* path that is registered already it returns the transport's
\* handler-exists error and leaves the registrations unchanged.
C14_RegisterOnceThenExists ==
    [][(/\ task[Main].pc = "idle"
        /\ ev'.c = Main
        /\ ev'.op = "register_uri"
        /\ ev'.uri # "NULL" /\ ev'.handler # "NULL"
        /\ s_state = "RUNNING")
       => (/\ s_server # 0
           /\ IF ev'.uri \in handlers[s_server]
              THEN ev'.ret = "HANDLER_EXISTS" /\ handlers' = handlers
              ELSE /\ ev'.ret = "OK"
                   /\ handlers' = [handlers EXCEPT
                                     ![s_server] = @ \cup {ev'.uri}])]_vars

\* The second register_uri("/api/ping", handle_ping) since start()
\* returned got the handler-exists error; the server still runs with that
\* registration and the four default routes.
C14_Witness ==
    /\ ev.c = Main
    /\ ev.op = "register_uri"
    /\ ev.uri = "/api/ping"
    /\ ev.ret = "HANDLER_EXISTS"
    /\ s_state = "RUNNING"
    /\ s_server # 0
    /\ handlers[s_server] = {"/", "/index.html", "/index.htm", "/favicon.ico",
                             "/api/ping"}

\* C15: a request path that contains ".." anywhere makes the resolver report
\* failure with its outputs cleared and without a single existence probe or
\* open, whatever files the mount holds.
C15_DotDotRejectedBeforeProbe ==
    (/\ rq.pc = "resolved"
     /\ \E i \in 1 .. Len(rq.uri) - 1 : SubSeq(rq.uri, i, i + 1) = << ".", "." >>)
    => (/\ ~rq.res.ok
        /\ rq.res.probes = << >>
        /\ rq.res.full_path = << >>)

C15_Witness ==
    /\ rq.pc = "resolved"
    /\ rq.uri = << "/", ".", ".", "/", "s", "e", "c", "r", "e", "t" >>
    /\ full(rq.uri) \in files
    /\ ~rq.res.ok

\* C16: for an accepted request path the resolver returns the first existing
\* file in the order candidate1 + ".gz", candidate1, candidate2 + ".gz",
\* candidate2, where candidate1 is the logical path and candidate2, for .html
\* and .htm only, the other spelling; the compression flag is set exactly when
\* a candidate + ".gz" entry was selected, the probes stop at the selected
\* file, and not-found is reported exactly when no entry exists.
C16_FirstExistingInProbeOrder ==
    (/\ rq.pc = "resolved"
     /\ rq.uri # << >>
     /\ rq.uri[1] = "/"
     /\ ~\E i \in 1 .. Len(rq.uri) - 1 : SubSeq(rq.uri, i, i + 1) = << ".", "." >>)
    => LET candidate1 == logical_path(rq.uri)
           candidate2 ==
               IF ends_with(candidate1, HtmlSuffix)
               THEN << SubSeq(candidate1, 1, Len(candidate1) - 5) \o HtmSuffix >>
               ELSE IF ends_with(candidate1, HtmSuffix)
               THEN << candidate1 \o << "l" >> >>
               ELSE << >>
           order ==
               << kFsBase \o candidate1 \o GzSuffix, kFsBase \o candidate1 >>
               \o (IF candidate2 = << >> THEN << >>
                   ELSE << kFsBase \o candidate2[1] \o GzSuffix,
                           kFsBase \o candidate2[1] >>)
           hits == {i \in DOMAIN order : order[i] \in files}
       IN  IF hits = {}
           THEN ~rq.res.ok /\ rq.res.probes = order
           ELSE LET m == CHOOSE i \in hits : \A j \in hits : i <= j
                IN  /\ rq.res.ok
                    /\ rq.res.full_path = order[m]
                    /\ rq.res.is_gz = (m % 2 = 1)
                    /\ rq.res.probes = SubSeq(order, 1, m)

C16_Witness ==
    /\ rq.pc = "resolved"
    /\ rq.uri = << "/", "p", "a", "g", "e", ".", "h", "t", "m", "l" >>
    /\ full(<< "/", "p", "a", "g", "e", ".", "h", "t", "m", "l" >>) \in files
    /\ full(<< "/", "p", "a", "g", "e", ".", "h", "t", "m", "l", ".", "g", "z" >>) \notin files
    /\ rq.res.full_path = full(<< "/", "p", "a", "g", "e", ".", "h", "t", "m", "l" >>)
    /\ ~rq.res.is_gz

\* C17: on every set of files "/" and "/index.html" resolve to the same
\* result (storage path, content type and compression flag, or both not
\* found); and when no index file variant exists, handle_root answers both
\* with the embedded default page and status 200 as its only response.
C17_RootAliasesIndex ==
    LET a == resolve_fs_path(<< "/" >>, files)
        b == resolve_fs_path(SlashIndexHtml, files)
        variants == { full(SlashIndexHtml \o GzSuffix), full(SlashIndexHtml),
                      full(SlashIndexHtm \o GzSuffix), full(SlashIndexHtm) }
    IN  /\ a.ok = b.ok
        /\ a.full_path = b.full_path
        /\ a.ctype = b.ctype
        /\ a.is_gz = b.is_gz
        /\ (/\ rq.pc \in {"open", "stream", "stream_end", "handler", "done"}
            /\ rq.rc \in {"none", "OK", "RESP_SEND", "NOT_FOUND"}
            /\ rq.res.probes # << >>
            /\ rq.uri \in {<< "/" >>, SlashIndexHtml})
           => (/\ rq.res.ok = b.ok
               /\ rq.res.full_path = b.full_path
               /\ rq.res.ctype = b.ctype
               /\ rq.res.is_gz = b.is_gz)
        /\ (/\ rq.pc = "done"
            /\ rq.handler = "handle_root"
            /\ rq.uri \in {<< "/" >>, SlashIndexHtml}
            /\ files \cap variants = {})
           => rq.out = << [kind |-> "send", status |-> "200 OK",
                           ctype |-> "text/html; charset=utf-8",
                           no_cache |-> TRUE, gzip |-> FALSE,
                           body |-> "kRoot", off |-> 0, len |-> 0,
                           sent |-> rq.ret = "OK"] >>

C17_Witness ==
    /\ rq.pc = "done"
    /\ rq.handler = "handle_root"
    /\ rq.uri = << "/" >>
    /\ s_fs_mounted
    /\ full(SlashFavicon) \in files
    /\ rq.rc = "NOT_FOUND"
    /\ rq.res.probes # << >>
    /\ rq.out[1].body = "kRoot"
    /\ rq.ret = "OK"

\* C18: when handle_root or handle_favicon_ico returns, not-found and
\* not-supported have been answered with the embedded payload (status 200,
\* cache-disabling headers, the payload's content type), any other error with
\* the generic 500 text, success with nothing further; and in every case the
\* pieces the connection took belong to one response only, which is complete
\* when the handler returns success.
C18_ExactlyOneResponse ==
    rq.pc = "done" =>
        LET n == Len(rq.out)
            taken == {i \in 1 .. n : rq.out[i].sent}
            whole == {i \in taken : rq.out[i].kind = "send"}
            chunked == {i \in taken : rq.out[i].kind # "send"}
            begun == Cardinality(whole) + (IF chunked = {} THEN 0 ELSE 1)
        IN  /\ rq.rc \in {"NOT_FOUND", "NOT_SUPPORTED"} =>
                /\ n >= 1
                /\ rq.out[n].kind = "send"
                /\ rq.out[n].status = "200 OK"
                /\ rq.out[n].no_cache
                /\ IF rq.handler = "handle_root"
                   THEN /\ rq.out[n].body = "kRoot"
                        /\ rq.out[n].ctype = "text/html; charset=utf-8"
                   ELSE /\ rq.out[n].body = "kFaviconIco"
                        /\ rq.out[n].ctype = "image/x-icon"
            /\ rq.rc \notin {"OK", "NOT_FOUND", "NOT_SUPPORTED"} =>
                /\ n >= 1
                /\ rq.out[n].kind = "send"
                /\ rq.out[n].status = "500 Internal Server Error"
                /\ rq.out[n].body = "Internal file server error"
            /\ rq.rc = "OK" =>
                \A i \in 1 .. n :
                    rq.out[i].body \notin {"kRoot", "kFaviconIco",
                                           "Internal file server error"}
            /\ begun <= 1
            /\ rq.ret = "OK" =>
                  /\ begun = 1
                  /\ chunked # {} => \E i \in chunked : rq.out[i].kind = "end"

\* C19: the mount primitive succeeds at most once, is not called again after
\* a success, is not called again after a failure, and once a call has
\* failed every resolution reports not-supported.
C19_MountMemoized ==
    /\ Cardinality({i \in DOMAIN mount_log : mount_log[i] = "OK"}) <= 1
    /\ \A i \in DOMAIN mount_log : mount_log[i] = "OK" => i = Len(mount_log)
    /\ \A i \in DOMAIN mount_log : mount_log[i] = "FAIL" => i = Len(mount_log)
    /\ (/\ \E i \in DOMAIN mount_log : mount_log[i] = "FAIL"
        /\ rq.pc \in {"handler", "done"})
       => rq.rc = "NOT_SUPPORTED"

\* C20: one start() call invokes server bring-up only in attempts 1 to 5,
\* once per attempt; it returns as soon as a readiness wait finds the
\* readiness bit set; and the delay that ends its k-th failed attempt is
\* 50 * 2^(k-1), whatever step of the attempt failed; after the fifth
\* failed attempt (delay 800) no further attempt is made.
C20_FiveAttemptsDoublingBackoff ==
    [][LET r == task[Main]
           q == task'[Main]
       IN  /\ (r.pc = "srv_start" /\ q # r) => r.attempt < 5
           /\ (r.pc = "idle" /\ q.op = "start") =>
                  (q.pc = "srv_start" /\ q.attempt = 0 /\ q.delay = 0)
           /\ (r.op = "start" /\ q.pc = "srv_start" /\ q # r) =>
                  q.attempt = r.attempt + 1
           /\ (r.op = "start" /\ q.op = "start" /\ q.attempt # r.attempt) =>
                  (/\ q.attempt = r.attempt + 1
                   /\ q.attempt \in 1 .. 5
                   /\ q.delay = 50 * 2 ^ (q.attempt - 1)
                   /\ q.pc = IF q.attempt = 5 THEN "start_final"
                                              ELSE "srv_start")
           /\ (r.op = "start" /\ q.op = "start" /\ q.attempt = r.attempt) =>
                  q.delay = r.delay
           /\ (r.pc = "wait_ready" /\ ready_bit /\ q # r) =>
                  (q = Idle /\ ev'.c = Main /\ ev'.op = "start"
                            /\ ev'.attempt = r.attempt)]_vars

\* start() has failed five times, the last time after a readiness wait
\* that timed out, has delayed 800 and is about to give up.
C20_Witness ==
    /\ task[Main].pc = "start_final"
    /\ task[Main].attempt = 5
    /\ task[Main].delay = 800
    /\ task[Main].backoff = 1600
    /\ s_task # 0

\* C21: the lifecycle state becomes RUNNING only in the first lock section of
\* a worker task, only from STARTING, and with the readiness bit set in the
\* same step; no step of start(), stop() or any other operation writes
\* RUNNING, and the readiness bit is set by no other step.
C21_OnlyWorkerCommitsRunning ==
    [][(s_state' = "RUNNING" /\ s_state # "RUNNING") \/ (ready_bit' /\ ~ready_bit)
          => /\ s_state = "STARTING"
             /\ s_state' = "RUNNING"
             /\ ready_bit'
             /\ task' = task
             /\ \E w \in Workers :
                   /\ wk[w].pc = "init"
                   /\ wk' = [wk EXCEPT ![w].pc = "wait"]]_vars

C21_Witness ==
    /\ s_state = "RUNNING"
    /\ ready_bit
    /\ s_task # 0
    /\ wk[s_task].pc = "wait"
    /\ \E c \in Callers : task[c].pc = "wait_ready"

\* C22: no interleaving of start() and stop() leaves a worker blocked on its
\* wake-wait with no wake to come: whenever no call is in progress and the
\* lifecycle state is STOPPED, so that stop() returns at once and sends no
\* wake, every worker task that is still alive has a wake notification
\* pending or has taken one and is on its way to the exit-requested flag.
C22_NoWorkerLeftWaiting ==
    (s_state = "STOPPED" /\ \A c \in Callers : task[c].pc = "idle")
    => \A w \in Workers :
          wk[w].pc \in {"init", "wait"} => wk[w].notified

\* C23: every write of the lifecycle state, the server handle, the
\* worker-task handle and the exit-requested flag, and the read of the
\* worker-task handle that notify_worker makes, is the step of a task that
\* holds the lock: no such step is taken while the lock is held by another
\* task (here a task that was deleted holding it, so that the lock is never
\* free again).
C23_SharedStateOnlyUnderLock ==
    [][(\/ << s_state, s_server, s_task, s_task_exit >>' #
             << s_state, s_server, s_task, s_task_exit >>
        \/ \E c \in Callers :
              /\ task[c].pc \in {"st_nread", "swt_nread"}
              /\ task'[c].pc # task[c].pc)
       => ~mutexDead]_vars

\* C26: whenever no start() or stop() call is in progress and the lifecycle
\* state is STOPPED, the server handle and the worker-task handle are null
\* and no worker task is alive.
C26_QuiescentStoppedIsClean ==
    (s_state = "STOPPED" /\ \A c \in Callers : task[c].pc = "idle")
    => /\ s_server = 0
       /\ s_task = 0
       /\ \A w \in Workers : wk[w].pc = "none"

\* C27: a wake notification is given only to a worker task that is alive:
\* when notify_worker gives the notification to the handle it has read, the
\* task of that handle has not deleted itself.
C27_NotifyOnlyLiveWorker ==
    [][\A c \in Callers :
          (task[c].pc \in {"st_ngive", "swt_ngive"} /\ task'[c].pc # task[c].pc)
          => wk[task[c].nt].pc # "none"]_vars

\* C28: in every reachable state at most one worker task is alive, and a
\* non-null worker-task handle refers to a live worker task.
C28_AtMostOneWorker ==
    /\ Cardinality({w \in Workers : wk[w].pc # "none"}) <= 1
    /\ s_task # 0 => wk[s_task].pc # "none"

\* C29: whenever the lifecycle state is RUNNING, the four default routes are
\* registered on the current server handle.
C29_RunningHasDefaultRoutes ==
    s_state = "RUNNING"
    => /\ s_server # 0
       /\ \A k \in DOMAIN DefaultRoutes : DefaultRoutes[k] \in handlers[s_server]

\* C24: when send_file_stream has returned: if the file did not open, one
\* 500 response and no chunk were handed over; if it opened, only chunks
\* were handed over, a chunk whose send failed is the last one and its error
\* is returned; and if every read and every send succeeded, a file of n
\* bytes went out as ceil(n / 1024) data chunks of 1 .. 1024 bytes, in file
\* order and without gaps, followed by exactly one empty terminating chunk.
C24_ChunkedStreaming ==
    (rq.pc = "handler" /\ rq.res.ok)
    => LET out == rq.out
           m == Len(out)
           d == (rq.size + kBufSize - 1) \div kBufSize
       IN  /\ rq.size = -1
              => /\ m = 1
                 /\ out[1].kind = "send"
                 /\ out[1].status = status_for(500)
                 /\ rq.rc = SendResult(out[1].sent)
           /\ rq.size # -1
              => /\ \A i \in 1 .. m : out[i].kind \in {"chunk", "end"}
                 /\ \A i \in 1 .. m :
                       ~out[i].sent => i = m /\ rq.rc = "RESP_SEND"
           /\ (rq.size # -1 /\ ~rq.rderr /\ \A i \in 1 .. m : out[i].sent)
              => /\ m = d + 1
                 /\ \A i \in 1 .. d :
                       /\ out[i].kind = "chunk"
                       /\ out[i].off = (i - 1) * kBufSize
                       /\ out[i].len = Min({kBufSize, rq.size - out[i].off})
                       /\ out[i].len \in 1 .. kBufSize
                 /\ out[m].kind = "end"
                 /\ out[m].len = 0
                 /\ rq.rc = "OK"

C24_Witness ==
    /\ rq.pc = "handler"
    /\ rq.res.ok
    /\ rq.size = 2 * kBufSize
    /\ ~rq.rderr
    /\ Len(rq.out) = 3
    /\ \A i \in 1 .. 3 : rq.out[i].sent
    /\ rq.out[2].off = kBufSize
    /\ rq.out[3].kind = "end"

\* C25: when a handler has returned from a request during which the file
\* failed to open, a read failed or a chunk was not taken, the last thing
\* handed to the connection is an error response, and no terminating chunk
\* has closed the body as a complete successful one.
C25_IoFailureIsReported ==
    LET out == rq.out
        m == Len(out)
        failed == \/ rq.size = -1
                  \/ rq.rderr
                  \/ \E i \in 1 .. m : out[i].kind # "send" /\ ~out[i].sent
    IN  (rq.pc = "done" /\ rq.res.ok /\ failed)
        => /\ out[m].kind = "send"
           /\ out[m].status = status_for(500)
           /\ \A i \in 1 .. m : ~(out[i].kind = "end" /\ out[i].sent)

\* C30: whichever way the first calls of the tasks interleave, at most one
\* lock and one event group exist, the tasks that wait for or hold the lock
\* all use the same lock, and no two tasks are inside a lock section at the
\* same time.
C30_OneLockOneGroup ==
    /\ Cardinality({l \in 1 .. em.locks : l \notin em.deleted}) <= 1
    /\ em.groups <= 1
    /\ \A c, d \in Callers :
          (em.pc[c] \in {"take", "cs"} /\ em.pc[d] \in {"take", "cs"})
          => em.tk[c] = em.tk[d]
    /\ \A c, d \in Callers :
          (em.pc[c] = "cs" /\ em.pc[d] = "cs") => c = d

====
